---- MODULE Spec2Model ----
(***************************************************************************)
(* Model of build_reconstructor.py: the version decoder (Package.version), *)
(* the offset codec (filter_commit and the encoding in Package.version),   *)
(* the commit resolver (git_commit_from_offset on top of git) and the      *)
(* per-package main loop.                                                  *)
(*                                                                         *)
(* Python strings are sequences of one-character strings.  Python ints     *)
(* that can exceed 31 bits (post_commit) are little-endian sequences of    *)
(* 16-bit limbs without high zero limbs (0 is << >>).                      *)
(***************************************************************************)
EXTENDS Integers, Sequences, FiniteSets, TLC

VARIABLES
  fn,               \* the pieces the package filename is made of
  ver,              \* what Package.version() gave for it
  dec,              \* what filter_commit gave for version()'s offset
  cx, cenc, cdec,   \* an offset, its anomaly encoding, the decoding of that
  repo,             \* the clone at path: commits, tags, damage
  call,             \* the arguments of git_commit_from_offset
  cwd,              \* the process working directory
  res,              \* the outcome of git_commit_from_offset
  pkgs,             \* the packages of the main loop
  idx,              \* the loop's position in pkgs
  total_processed,
  total_skipped,
  job,              \* tag, post_commit, dest and rev of the package in hand
  pc                \* where the main program is

vars == <<fn, ver, dec, cx, cenc, cdec, repo, call, cwd, res,
          pkgs, idx, total_processed, total_skipped, job, pc>>

codecVars == <<fn, ver, dec, cx, cenc, cdec>>

resolveVars == <<repo, call, res>>

mainVars == <<pkgs, idx, total_processed, total_skipped, job, pc>>

\* no exception
None == "none"

----------------------------------------------------------------------------
(* Python str primitives *)

\* s[i:i+len(pat)] == pat
MatchAt(s, pat, i) ==
  /\ i + Len(pat) - 1 <= Len(s)
  /\ \A k \in 1..Len(pat) : s[i + k - 1] = pat[k]

\* str.find, 1-based; 0 when pat does not occur
Find(s, pat) ==
  LET hits == {i \in 1..Len(s) : MatchAt(s, pat, i)}
  IN IF hits = {} THEN 0 ELSE CHOOSE i \in hits : \A j \in hits : i <= j

\* pat in s
Contains(s, pat) == Find(s, pat) # 0

\* s.split(sep)
RECURSIVE Split(_, _)
Split(s, sep) ==
  LET i == Find(s, sep)
  IN IF i = 0 THEN <<s>>
     ELSE <<SubSeq(s, 1, i - 1)>> \o Split(SubSeq(s, i + Len(sep), Len(s)), sep)

\* s.split(sep, 1)
Split1(s, sep) ==
  LET i == Find(s, sep)
  IN IF i = 0 THEN <<s>>
     ELSE <<SubSeq(s, 1, i - 1), SubSeq(s, i + Len(sep), Len(s))>>

Whitespace == {" ", "\n"}

\* s.rstrip()
RECURSIVE RStrip(_)
RStrip(s) ==
  IF s # <<>> /\ s[Len(s)] \in Whitespace THEN RStrip(SubSeq(s, 1, Len(s) - 1))
  ELSE s

\* s.splitlines()
RECURSIVE SplitLines(_)
SplitLines(s) ==
  IF s = <<>> THEN <<>>
  ELSE LET i == Find(s, <<"\n">>)
       IN IF i = 0 THEN <<s>>
          ELSE <<SubSeq(s, 1, i - 1)>> \o SplitLines(SubSeq(s, i + 1, Len(s)))

\* sep.join(parts)
RECURSIVE Join(_, _)
Join(sep, parts) ==
  IF parts = <<>> THEN <<>>
  ELSE IF Len(parts) = 1 THEN parts[1]
  ELSE parts[1] \o sep \o Join(sep, Tail(parts))

\* os.path.basename
RECURSIVE Basename(_)
Basename(p) ==
  LET i == Find(p, <<"/">>)
  IN IF i = 0 THEN p ELSE Basename(SubSeq(p, i + 1, Len(p)))

DigitChars == <<"0", "1", "2", "3", "4", "5", "6", "7", "8", "9">>

DigitVal(c) == (CHOOSE i \in 1..10 : DigitChars[i] = c) - 1

IsDigits(s) ==
  /\ s # <<>>
  /\ \A i \in 1..Len(s) : \E k \in 1..10 : DigitChars[k] = s[i]

----------------------------------------------------------------------------
(* Python int primitives on limb sequences *)

RECURSIVE Norm(_)
Norm(l) ==
  IF l # <<>> /\ l[Len(l)] = 0 THEN Norm(SubSeq(l, 1, Len(l) - 1)) ELSE l

\* l * 10 + c
RECURSIVE MulAdd10(_, _)
MulAdd10(l, c) ==
  IF l = <<>> THEN (IF c = 0 THEN <<>> ELSE <<c>>)
  ELSE LET v == l[1] * 10 + c
       IN <<v % (2^16)>> \o MulAdd10(Tail(l), v \div (2^16))

\* int(s) for a string of decimal digits
RECURSIVE IntOfDigits(_)
IntOfDigits(s) ==
  IF s = <<>> THEN <<>>
  ELSE MulAdd10(IntOfDigits(SubSeq(s, 1, Len(s) - 1)), DigitVal(s[Len(s)]))

\* a limb-sized int as a number
Small(l) == IF l = <<>> THEN 0 ELSE l[1]

\* str(n) for a small int
RECURSIVE StrOfNat(_)
StrOfNat(n) ==
  IF n < 10 THEN <<DigitChars[n + 1]>>
  ELSE StrOfNat(n \div 10) \o <<DigitChars[(n % 10) + 1]>>

StrOfInt(n) == IF n < 0 THEN <<"-">> \o StrOfNat(0 - n) ELSE StrOfNat(n)

\* l // 10 and l % 10, rem carried down from the limbs above
RECURSIVE DivMod10(_, _)
DivMod10(l, rem) ==
  IF l = <<>> THEN [q |-> <<>>, r |-> rem]
  ELSE LET cur  == rem * (2^16) + l[Len(l)]
           rest == DivMod10(SubSeq(l, 1, Len(l) - 1), cur % 10)
       IN [q |-> rest.q \o <<cur \div 10>>, r |-> rest.r]

\* str(l)
RECURSIVE StrOfPyInt(_)
StrOfPyInt(l) ==
  LET d == DivMod10(l, 0)
  IN IF Norm(d.q) = <<>> THEN <<DigitChars[d.r + 1]>>
     ELSE StrOfPyInt(Norm(d.q)) \o <<DigitChars[d.r + 1]>>

\* a | b on numbers below 2^16
RECURSIVE OrBits(_, _)
OrBits(a, b) ==
  IF a = 0 THEN b
  ELSE IF b = 0 THEN a
  ELSE (IF (a % 2) + (b % 2) > 0 THEN 1 ELSE 0) + 2 * OrBits(a \div 2, b \div 2)

\* a | b
RECURSIVE BitOr(_, _)
BitOr(a, b) ==
  IF a = <<>> THEN b
  ELSE IF b = <<>> THEN a
  ELSE <<OrBits(a[1], b[1])>> \o BitOr(Tail(a), Tail(b))

\* x << 32
Shl32(x) == IF x = <<>> THEN <<>> ELSE <<0, 0>> \o x

\* x >> 32
Shr32(x) == IF Len(x) <= 2 THEN <<>> ELSE SubSeq(x, 3, Len(x))

\* x & 0xffffffff
And32(x) == IF Len(x) <= 2 THEN x ELSE Norm(SubSeq(x, 1, 2))

----------------------------------------------------------------------------
(* Offset codec *)

\* 0xFACEFEED: low limb 0xFEED, high limb 0xFACE
BAD_MAGIC == <<65261, 64206>>

\* (int(post_commit) << 32) | BAD_MAGIC
EncodeAnomalous(x) == BitOr(Shl32(x), BAD_MAGIC)

\* filter_commit as it would be with the shift left out
filter_commit_NoShift(x) ==
  IF And32(x) = BAD_MAGIC
  THEN [x |-> x, has_magic |-> TRUE]
  ELSE [x |-> x, has_magic |-> FALSE]

filter_commit(x) ==
  IF And32(x) = BAD_MAGIC
  THEN [x |-> Shr32(x), has_magic |-> TRUE]
  ELSE [x |-> x, has_magic |-> FALSE]

----------------------------------------------------------------------------
(* Package.version *)

Raise(e) == [exc |-> e, tag |-> <<>>, post |-> <<>>]

Return(tag, post) == [exc |-> None, tag |-> tag, post |-> post]

DotDev == <<".", "d", "e", "v">>

Dev == <<"d", "e", "v">>

VersionDotDev(base) ==
  LET p == Split(base, DotDev)
  IN IF Len(p) # 2 THEN Raise("ValueError")
     ELSE IF ~IsDigits(p[2]) THEN Raise("ValueError")
     ELSE Return(p[1], IntOfDigits(p[2]))

\* the 'dev' branch as it would be with minor -= 1 left out
VersionDevNoDecrement(base) ==
  LET p == Split(base, Dev)
  IN IF Len(p) # 2 THEN Raise("ValueError")
     ELSE LET mm == Split(p[1], <<".">>)
          IN IF Len(mm) # 2 THEN Raise("ValueError")
             ELSE IF ~IsDigits(mm[1]) \/ ~IsDigits(mm[2]) THEN Raise("ValueError")
             ELSE IF ~IsDigits(p[2]) THEN Raise("ValueError")
             ELSE LET major == Small(IntOfDigits(mm[1]))
                      minor == Small(IntOfDigits(mm[2]))
                      tag   == <<"v">> \o Join(<<".">>, <<StrOfInt(major), StrOfInt(minor)>>)
                  IN Return(tag, EncodeAnomalous(IntOfDigits(p[2])))

VersionDev(base) ==
  LET p == Split(base, Dev)
  IN IF Len(p) # 2 THEN Raise("ValueError")
     ELSE LET mm == Split(p[1], <<".">>)
          IN IF Len(mm) # 2 THEN Raise("ValueError")
             ELSE IF ~IsDigits(mm[1]) \/ ~IsDigits(mm[2]) THEN Raise("ValueError")
             ELSE IF ~IsDigits(p[2]) THEN Raise("ValueError")
             ELSE LET major == Small(IntOfDigits(mm[1]))
                      minor == Small(IntOfDigits(mm[2])) - 1
                      tag   == <<"v">> \o Join(<<".">>, <<StrOfInt(major), StrOfInt(minor)>>)
                  IN Return(tag, EncodeAnomalous(IntOfDigits(p[2])))

version(filename) ==
  LET parts == Split(Basename(filename), <<"-">>)
  IN IF Len(parts) # 3 THEN Raise("ValueError")
     ELSE LET base == parts[2]
          IN IF Contains(base, DotDev) THEN VersionDotDev(base)
             ELSE IF Contains(base, Dev) THEN VersionDev(base)
             ELSE Return(base, <<>>)

----------------------------------------------------------------------------
(* git and what it runs on *)

ESCAPE_CHARS == {"\\", ";", "&", "|"}

GIT == <<"g", "i", "t">>

CLONE == <<"c", "l", "o", "n", "e">>

CHECKOUT == <<"c", "h", "e", "c", "k", "o", "u", "t">>

LOG == <<"l", "o", "g">>

FETCH == <<"f", "e", "t", "c", "h">>

ONELINE == <<"-", "-", "o", "n", "e", "l", "i", "n", "e">>

safe_command(x) ==
  LET cmdtmp == Join(<<" ">>, x)
  IN \A i \in 1..Len(cmdtmp) : cmdtmp[i] \notin ESCAPE_CHARS

(* A clone is env: kind says what is at the path ("missing", "file", "dir");   *)
(* n commits on the current branch, numbered 1 (HEAD) to n (the oldest);       *)
(* commit emptyAt, if any, has an empty subject; head says whether the log of  *)
(* the current branch can be read; refs[name] is 0 when no such ref exists,    *)
(* -1 when the ref exists and its history cannot be read, p when it points at  *)
(* commit p; cloneOk and checkoutOk say how git clone and git checkout end.    *)

CommitHash(i) == <<"c", DigitChars[i + 1]>>

CommitSubject(env, i) ==
  IF i = env.emptyAt THEN <<>> ELSE <<"m", " ", DigitChars[i + 1]>>

\* one line of git log --oneline: the hash, a space, the subject
OneLine(env, i) == CommitHash(i) \o <<" ">> \o CommitSubject(env, i)

\* the output of git log --oneline from commit p back to the oldest
RECURSIVE LogText(_, _)
LogText(env, p) ==
  IF p > env.n THEN <<>> ELSE OneLine(env, p) \o <<"\n">> \o LogText(env, p + 1)

Exit(status, cause, out) == [status |-> status, cause |-> cause, out |-> out]

\* the git process: exit status, why it failed, what it printed
RunGit(env, cmd) ==
  IF cmd[2] = CLONE THEN
    (IF env.cloneOk THEN Exit(0, None, <<>>) ELSE Exit(128, "fatal", <<>>))
  ELSE IF cmd[2] = CHECKOUT THEN
    (IF env.checkoutOk THEN Exit(0, None, <<>>) ELSE Exit(1, "fatal", <<>>))
  ELSE IF cmd[2] = LOG /\ Len(cmd) = 3 THEN
    (IF env.head = "ok" /\ env.n > 0 THEN Exit(0, None, LogText(env, 1))
     ELSE Exit(128, "fatal", <<>>))
  ELSE IF cmd[2] = LOG THEN
    LET p == IF cmd[4] \in DOMAIN env.refs THEN env.refs[cmd[4]] ELSE 0
    IN IF p = 0 THEN Exit(128, "noref", <<>>)
       ELSE IF p < 0 THEN Exit(128, "fatal", <<>>)
       ELSE Exit(0, None, LogText(env, p))
  ELSE Exit(0, None, <<>>)

GitResult(exc, ran, cause, out) == [exc |-> exc, ran |-> ran, cause |-> cause, out |-> out]

git(env, task, args) ==
  LET cmd == <<GIT, task>> \o args
  IN IF ~safe_command(cmd) THEN GitResult("ValueError", FALSE, None, <<>>)
     ELSE IF task \notin {CLONE, CHECKOUT, LOG, FETCH} THEN GitResult("ValueError", FALSE, None, <<>>)
     ELSE LET r == RunGit(env, cmd)
          IN IF r.status # 0 THEN GitResult("GitError", TRUE, r.cause, <<>>)
             ELSE GitResult(None, TRUE, None, r.out)

----------------------------------------------------------------------------
(* git_commit_from_offset *)

Outcome(exc, rev, queries, dir) ==
  [exc |-> exc, rev |-> rev, queries |-> queries, cwd |-> dir]

\* os.chdir(path) from directory dir
ChDir(dir, path) ==
  IF path # <<>> /\ path[1] = "/" THEN path ELSE dir \o <<"/">> \o path

\* seq[k] as Python indexes it: the 1-based position, 0 for an IndexError
PyIndex(len, k) ==
  IF 0 <= k /\ k < len THEN k + 1
  ELSE IF k < 0 /\ 0 - k <= len THEN len + k + 1
  ELSE 0

\* the loop as it would be if it let a failure other than a missing ref through
RECURSIVE TryTagsStopOnFatal(_, _, _, _)
TryTagsStopOnFatal(env, tags, i, trace) ==
  IF i > Len(tags) THEN [exc |-> None, found |-> FALSE, out |-> <<>>, trace |-> trace]
  ELSE LET r == git(env, LOG, <<ONELINE, tags[i]>>)
           t == IF r.ran
                THEN Append(trace, [args |-> <<ONELINE, tags[i]>>, cause |-> r.cause])
                ELSE trace
       IN IF r.exc = "GitError" /\ r.cause = "noref"
          THEN TryTagsStopOnFatal(env, tags, i + 1, t)
          ELSE IF r.exc # None
          THEN [exc |-> r.exc, found |-> FALSE, out |-> <<>>, trace |-> t]
          ELSE [exc |-> None, found |-> TRUE, out |-> r.out, trace |-> t]

\* for salvo in tags: try: git('log', '--oneline', salvo) ... break
\* except GitError: continue
RECURSIVE TryTags(_, _, _, _)
TryTags(env, tags, i, trace) ==
  IF i > Len(tags) THEN [exc |-> None, found |-> FALSE, out |-> <<>>, trace |-> trace]
  ELSE LET r == git(env, LOG, <<ONELINE, tags[i]>>)
           t == IF r.ran
                THEN Append(trace, [args |-> <<ONELINE, tags[i]>>, cause |-> r.cause])
                ELSE trace
       IN IF r.exc = "GitError" THEN TryTags(env, tags, i + 1, t)
          ELSE IF r.exc # None
          THEN [exc |-> r.exc, found |-> FALSE, out |-> <<>>, trace |-> t]
          ELSE [exc |-> None, found |-> TRUE, out |-> r.out, trace |-> t]

\* the candidates as they would be with the first two in the other order
TagCandidatesVFirst(path, tag) ==
  LET name == Split(Basename(path), <<"-">>)[1]
  IN <<<<"v">> \o tag, tag, Join(<<"-">>, <<name, tag>>),
       name \o <<"-">> \o <<"v">> \o tag>>

\* tags = [tag, 'v' + tag, '-'.join([name, tag]), name + '-' + 'v' + tag]
TagCandidates(path, tag) ==
  LET name == Split(Basename(path), <<"-">>)[1]
  IN <<tag, <<"v">> \o tag, Join(<<"-">>, <<name, tag>>),
       name \o <<"-">> \o <<"v">> \o tag>>

\* if not post_commit: the first line of the first tag that has a log
ResolveTag(env, cwd0, dir, tags) ==
  LET t     == TryTags(env, tags, 1, <<>>)
      lines == SplitLines(t.out)
  IN IF t.exc # None THEN Outcome(t.exc, <<>>, t.trace, dir)
     ELSE IF t.found /\ lines = <<>> THEN Outcome("IndexError", <<>>, t.trace, dir)
     ELSE LET result == IF t.found THEN lines[1] ELSE <<>>
              parts  == Split1(result, <<" ">>)
          IN IF Len(parts) # 2 THEN Outcome("ValueError", <<>>, t.trace, dir)
             ELSE Outcome(None, parts[1], t.trace, cwd0)

\* the anomaly branch as it would be if it counted from the oldest commit
ResolveAnomalyFromOldest(env, cwd0, dir, magic_post_commit) ==
  LET r     == git(env, LOG, <<ONELINE>>)
      trace == IF r.ran THEN <<[args |-> <<ONELINE>>, cause |-> r.cause]>> ELSE <<>>
      lines == SplitLines(r.out)
      k     == IF Len(magic_post_commit) > 1 THEN 0
               ELSE PyIndex(Len(lines), Len(lines) - 1 - Small(magic_post_commit))
  IN IF r.exc # None THEN Outcome(r.exc, <<>>, trace, dir)
     ELSE IF k = 0 THEN Outcome("IndexError", <<>>, trace, dir)
     ELSE LET parts == Split1(lines[k], <<" ">>)
          IN IF Len(parts) # 2 THEN Outcome("ValueError", <<>>, trace, dir)
             ELSE Outcome(None, parts[1], trace, cwd0)

\* if bad_magic: entry magic_post_commit of the log of the current branch
ResolveAnomaly(env, cwd0, dir, magic_post_commit) ==
  LET r     == git(env, LOG, <<ONELINE>>)
      trace == IF r.ran THEN <<[args |-> <<ONELINE>>, cause |-> r.cause]>> ELSE <<>>
      lines == SplitLines(r.out)
      k     == IF Len(magic_post_commit) > 1 THEN 0
               ELSE PyIndex(Len(lines), Small(magic_post_commit))
  IN IF r.exc # None THEN Outcome(r.exc, <<>>, trace, dir)
     ELSE IF k = 0 THEN Outcome("IndexError", <<>>, trace, dir)
     ELSE LET parts == Split1(lines[k], <<" ">>)
          IN IF Len(parts) # 2 THEN Outcome("ValueError", <<>>, trace, dir)
             ELSE Outcome(None, parts[1], trace, cwd0)

\* otherwise: entry tail - post_commit of the log of the first tag that has one
ResolveOffset(env, cwd0, dir, tags, post_commit) ==
  LET t     == TryTags(env, tags, 1, <<>>)
      lines == IF t.found THEN SplitLines(t.out) ELSE <<>>
      tail  == Len(lines)
      k     == IF Len(post_commit) > 1 THEN 0
               ELSE PyIndex(tail, tail - Small(post_commit))
  IN IF t.exc # None THEN Outcome(t.exc, <<>>, t.trace, dir)
     ELSE IF k = 0 THEN Outcome("IndexError", <<>>, t.trace, dir)
     ELSE LET parts == Split1(RStrip(lines[k]), <<" ">>)
          IN IF Len(parts) # 2 THEN Outcome("ValueError", <<>>, t.trace, dir)
             ELSE Outcome(None, parts[1], t.trace, cwd0)

git_commit_from_offset(env, cwd0, path, tag, post_commit) ==
  IF env.kind = "missing" THEN Outcome("FileNotFoundError", <<>>, <<>>, cwd0)
  ELSE IF env.kind # "dir" THEN Outcome("NotADirectoryError", <<>>, <<>>, cwd0)
  ELSE LET dir  == ChDir(cwd0, path)
           tags == TagCandidates(path, tag)
           fc   == filter_commit(post_commit)
       IN IF post_commit = <<>> THEN ResolveTag(env, cwd0, dir, tags)
          ELSE IF fc.has_magic THEN ResolveAnomaly(env, cwd0, dir, fc.x)
          ELSE ResolveOffset(env, cwd0, dir, tags, post_commit)

----------------------------------------------------------------------------
(* The decoder and the codec on a pool of filenames and offsets *)

NamePool == { <<"n", "p">>, <<"s", "-", "l">> }

DirPool == { <<>>, <<"d", "/">> }

PrePool ==
  { <<"1", ".", "5">>, <<"4", ".", "1">>, <<"4", ".", "0">>,
    <<"0", "4", ".", "1", "0">>, <<"1", ".", "1", "8", ".", "0">> }

MarkerPool == { <<>>, DotDev, Dev }

\* digit strings with the int each one spells; ok is FALSE for one that spells none
DigitTable ==
  << [s |-> <<>>,                                              ok |-> FALSE, v |-> <<>>],
     [s |-> <<"5", "x">>,                                      ok |-> FALSE, v |-> <<>>],
     [s |-> <<"0">>,                                           ok |-> TRUE, v |-> <<>>],
     [s |-> <<"3", "7">>,                                      ok |-> TRUE, v |-> <<37>>],
     [s |-> <<"5", "0", "0">>,                                 ok |-> TRUE, v |-> <<500>>],
     [s |-> <<"6", "5", "5", "3", "6">>,                       ok |-> TRUE, v |-> <<0, 1>>],
     [s |-> <<"4", "2", "0", "7", "8", "6", "9", "6", "7", "7">>, ok |-> TRUE, v |-> <<65261, 64206>>],
     [s |-> <<"4", "2", "9", "4", "9", "6", "7", "2", "9", "5">>, ok |-> TRUE, v |-> <<65535, 65535>>],
     [s |-> <<"4", "2", "9", "4", "9", "6", "7", "2", "9", "6">>, ok |-> TRUE, v |-> <<0, 0, 1>>],
     [s |-> <<"8", "5", "0", "2", "8", "3", "6", "9", "7", "3">>, ok |-> TRUE, v |-> <<65261, 64206, 1>>] >>

BuildPool == { <<"0">>, <<"p", "y", "_", "0">> }

FilenameOf(f) ==
  f.dir \o Join(<<"-">>, <<f.name, f.pre \o f.marker \o DigitTable[f.digs].s, f.build>>)

\* offsets below 2^32 for the round trip
XPool == { <<>>, <<1>>, <<500>>, <<65535>>, <<0, 1>>, <<65261, 64206>>, <<65535, 65535>> }

InitCodec ==
  /\ fn \in [dir : DirPool, name : NamePool, pre : PrePool, marker : MarkerPool,
              digs : 1..Len(DigitTable), build : BuildPool]
  /\ ver = <<>>
  /\ dec = <<>>
  /\ cx \in XPool
  /\ cenc = <<>>
  /\ cdec = <<>>
  /\ repo = <<>> /\ call = <<>> /\ res = <<>>
  /\ cwd = <<"/", "w">>
  /\ pkgs = <<>> /\ idx = 0 /\ total_processed = 0 /\ total_skipped = 0
  /\ job = <<>> /\ pc = "idle"

\* tag, post_commit = pkg.version()
Version ==
  /\ ver = <<>>
  /\ ver' = <<version(FilenameOf(fn))>>
  /\ UNCHANGED <<fn, dec, cx, cenc, cdec, resolveVars, cwd, mainVars>>

\* magic_post_commit, bad_magic = filter_commit(post_commit)
FilterCommit ==
  /\ ver # <<>>
  /\ ver[1].exc = None
  /\ dec = <<>>
  /\ dec' = <<filter_commit(ver[1].post)>>
  /\ UNCHANGED <<fn, ver, cx, cenc, cdec, resolveVars, cwd, mainVars>>

Encode ==
  /\ cenc = <<>>
  /\ cenc' = <<EncodeAnomalous(cx)>>
  /\ UNCHANGED <<fn, ver, dec, cx, cdec, resolveVars, cwd, mainVars>>

Decode ==
  /\ cenc # <<>>
  /\ cdec = <<>>
  /\ cdec' = <<filter_commit(cenc[1])>>
  /\ UNCHANGED <<fn, ver, dec, cx, cenc, resolveVars, cwd, mainVars>>

----------------------------------------------------------------------------
(* The resolver on a pool of clones and calls *)

MaxLog == 3

MaxOff == 4

PathP == <<"/", "t", "/", "p", "-", "1", ".", "0", "-", "0">>

PathQ == <<"q">>

Tag10 == <<"1", ".", "0">>

TagAmp == <<"1", "&">>

StartDir == <<"/", "w">>

\* the names a tag of the clone can have
RefUniverse ==
  { <<"1", ".", "0">>, <<"v", "1", ".", "0">>, <<"p", "-", "1", ".", "0">>,
    <<"p", "-", "v", "1", ".", "0">> }

Clones ==
  UNION { [kind : {"dir"}, n : {n}, emptyAt : 0..n, head : {"ok", "broken"},
           refs : [RefUniverse -> -1..n], cloneOk : {TRUE}, checkoutOk : {TRUE}]
          : n \in 0..MaxLog }

\* a clone of two commits with the tag v1.0 on the older one
SmallClone(kind) ==
  [kind |-> kind, n |-> 2, emptyAt |-> 0, head |-> "ok",
   refs |-> [r \in RefUniverse |-> IF r = <<"v", "1", ".", "0">> THEN 2 ELSE 0],
   cloneOk |-> TRUE, checkoutOk |-> TRUE]

\* the post_commit that stands for offset off, plain or with the sentinel
PostCommit(off, anom) ==
  IF anom THEN (IF off = 0 THEN <<65261, 64206>> ELSE <<65261, 64206, off>>)
  ELSE (IF off = 0 THEN <<>> ELSE <<off>>)

Calls(paths, tags, anoms) ==
  { [path |-> p, tag |-> t, off |-> o, anom |-> a, post_commit |-> PostCommit(o, a)]
    : p \in paths, t \in tags, o \in 0..MaxOff, a \in anoms }

InitResolve ==
  /\ \/ /\ repo \in Clones
        /\ call \in Calls({PathP}, {Tag10}, BOOLEAN)
     \/ /\ repo \in {SmallClone(k) : k \in {"missing", "file", "dir"}}
        /\ call \in Calls({PathP, PathQ}, {Tag10, TagAmp}, BOOLEAN)
  /\ cwd = StartDir
  /\ res = <<>>
  /\ fn = <<>> /\ ver = <<>> /\ dec = <<>> /\ cx = <<>> /\ cenc = <<>> /\ cdec = <<>>
  /\ pkgs = <<>> /\ idx = 0 /\ total_processed = 0 /\ total_skipped = 0
  /\ job = <<>> /\ pc = "idle"

\* offset = git_commit_from_offset(dest, tag, post_commit)
Resolve ==
  /\ res = <<>>
  /\ LET r == git_commit_from_offset(repo, cwd, call.path, call.tag, call.post_commit)
     IN /\ res' = <<r>>
        /\ cwd' = r.cwd
  /\ UNCHANGED <<repo, call, codecVars, mainVars>>

----------------------------------------------------------------------------
(* The main loop over the packages *)

MaxPkgs == 3

TempDir == <<"/", "t">>

GitUrl == <<"g">>

ArchiveUrl == <<"a">>

\* a clone whose only tag is tagname, on its older commit
TaggedClone(tagname, cloneOk, checkoutOk) ==
  [kind |-> "dir", n |-> 2, emptyAt |-> 0, head |-> "ok",
   refs |-> [r \in RefUniverse |-> IF r = tagname THEN 2 ELSE 0],
   cloneOk |-> cloneOk, checkoutOk |-> checkoutOk]

Pkg(filename, hasMeta, gitUrl, url, fetchOk, env) ==
  [filename |-> filename, hasMeta |-> hasMeta, mname |-> <<"p">>, git_url |-> gitUrl,
   url |-> url, fetchOk |-> fetchOk, env |-> env]

File10 == <<"p", "-", "1", ".", "0", "-", "0">>

V10 == <<"v", "1", ".", "0">>

PkgPool ==
  { Pkg(File10, FALSE, <<>>, <<>>, TRUE, TaggedClone(V10, TRUE, TRUE)),
    Pkg(File10, TRUE, <<>>, <<>>, TRUE, TaggedClone(V10, TRUE, TRUE)),
    Pkg(File10, TRUE, <<>>, ArchiveUrl, TRUE, TaggedClone(V10, TRUE, TRUE)),
    Pkg(File10, TRUE, <<>>, ArchiveUrl, FALSE, TaggedClone(V10, TRUE, TRUE)),
    Pkg(File10, TRUE, GitUrl, <<>>, TRUE, TaggedClone(V10, TRUE, TRUE)),
    Pkg(File10, TRUE, GitUrl, <<>>, TRUE, TaggedClone(V10, FALSE, TRUE)),
    Pkg(File10, TRUE, GitUrl, <<>>, TRUE, TaggedClone(V10, TRUE, FALSE)),
    Pkg(File10, TRUE, GitUrl, <<>>, TRUE, TaggedClone(<<"x">>, TRUE, TRUE)),
    Pkg(<<"p", "-", "q", "-", "1", ".", "0", "-", "0">>, TRUE, GitUrl, <<>>, TRUE,
        TaggedClone(V10, TRUE, TRUE)),
    Pkg(<<"p", "-", "1", ".", "1", "d", "e", "v", "1", "-", "0">>, TRUE, GitUrl, <<>>, TRUE,
        TaggedClone(V10, TRUE, TRUE)) }

\* Package.source_url: the url and the source type
source_url(pkg) ==
  IF pkg.git_url # <<>> THEN [url |-> pkg.git_url, source_type |-> "git"]
  ELSE [url |-> pkg.url, source_type |-> "archive"]

\* git_clone(url, dest): the exception it raises, None for none
git_clone(env, url, path) == git(env, CLONE, <<url, path>>).exc

\* git_checkout(path, rev): the exception it raises and the directory it leaves
git_checkout(env, cwd0, path, rev) ==
  IF env.kind = "missing" THEN [exc |-> "FileNotFoundError", cwd |-> cwd0]
  ELSE LET r == git(env, CHECKOUT, <<rev>>)
       IN IF r.exc # None THEN [exc |-> r.exc, cwd |-> ChDir(cwd0, path)]
          ELSE [exc |-> None, cwd |-> cwd0]

\* tag, post_commit = pkg.version() and the dest made of them
Decoded(pkg) ==
  LET v == version(pkg.filename)
  IN IF v.exc # None THEN [exc |-> v.exc, tag |-> <<>>, post |-> <<>>, dest |-> <<>>]
     ELSE LET fc  == filter_commit(v.post)
              off == IF fc.has_magic THEN fc.x ELSE v.post
          IN [exc |-> None, tag |-> v.tag, post |-> v.post,
              dest |-> TempDir \o <<"/">> \o
                       Join(<<"-">>, <<pkg.mname, v.tag, StrOfPyInt(off)>>)]

InitMain ==
  /\ pkgs \in UNION { [1..k -> PkgPool] : k \in 1..MaxPkgs }
  /\ idx = 1
  /\ total_processed = 0
  /\ total_skipped = 0
  /\ job = <<>>
  /\ pc = "loop"
  /\ cwd = StartDir
  /\ fn = <<>> /\ ver = <<>> /\ dec = <<>> /\ cx = <<>> /\ cenc = <<>> /\ cdec = <<>>
  /\ repo = <<>> /\ call = <<>> /\ res = <<>>

\* if pkg.metadata is None: ... continue
SkipNoMetadata ==
  /\ pc = "loop" /\ idx <= Len(pkgs)
  /\ ~pkgs[idx].hasMeta
  /\ total_skipped' = total_skipped + 1
  /\ idx' = idx + 1
  /\ UNCHANGED <<pkgs, total_processed, job, pc, cwd, codecVars, resolveVars>>

\* if not url: ... continue
SkipNoUrl ==
  /\ pc = "loop" /\ idx <= Len(pkgs)
  /\ pkgs[idx].hasMeta
  /\ source_url(pkgs[idx]).url = <<>>
  /\ total_skipped' = total_skipped + 1
  /\ idx' = idx + 1
  /\ UNCHANGED <<pkgs, total_processed, job, pc, cwd, codecVars, resolveVars>>

\* source_type 'git': version(), filter_commit and dest
DecodeVersion ==
  /\ pc = "loop" /\ idx <= Len(pkgs)
  /\ pkgs[idx].hasMeta
  /\ source_url(pkgs[idx]).url # <<>>
  /\ source_url(pkgs[idx]).source_type = "git"
  /\ job' = <<Decoded(pkgs[idx])>>
  /\ pc' = IF job'[1].exc = None THEN "clone" ELSE "aborted"
  /\ UNCHANGED <<pkgs, idx, total_processed, total_skipped, cwd, codecVars, resolveVars>>

\* git_clone(url, dest)
Clone ==
  /\ pc = "clone"
  /\ pc' = IF git_clone(pkgs[idx].env, source_url(pkgs[idx]).url, job[1].dest) = None
           THEN "resolve" ELSE "aborted"
  /\ UNCHANGED <<pkgs, idx, total_processed, total_skipped, job, cwd, codecVars, resolveVars>>

\* offset = git_commit_from_offset(dest, tag, post_commit)
ResolveCommit ==
  /\ pc = "resolve"
  /\ res' = <<git_commit_from_offset(pkgs[idx].env, cwd, job[1].dest, job[1].tag, job[1].post)>>
  /\ cwd' = res'[1].cwd
  /\ pc' = IF res'[1].exc = None THEN "checkout" ELSE "aborted"
  /\ UNCHANGED <<pkgs, idx, total_processed, total_skipped, job, codecVars, repo, call>>

\* git_checkout(dest, offset), then total_processed += 1
Checkout ==
  /\ pc = "checkout"
  /\ LET r == git_checkout(pkgs[idx].env, cwd, job[1].dest, res[1].rev)
     IN /\ cwd' = r.cwd
        /\ IF r.exc = None
           THEN /\ total_processed' = total_processed + 1
                /\ idx' = idx + 1
                /\ pc' = "loop"
           ELSE /\ pc' = "aborted"
                /\ UNCHANGED <<total_processed, idx>>
  /\ UNCHANGED <<pkgs, total_skipped, job, codecVars, resolveVars>>

\* source_type 'archive': download and untar, then total_processed += 1
Archive ==
  /\ pc = "loop" /\ idx <= Len(pkgs)
  /\ pkgs[idx].hasMeta
  /\ source_url(pkgs[idx]).url # <<>>
  /\ source_url(pkgs[idx]).source_type = "archive"
  /\ IF pkgs[idx].fetchOk
     THEN /\ total_processed' = total_processed + 1
          /\ idx' = idx + 1
          /\ pc' = "loop"
     ELSE /\ pc' = "aborted"
          /\ UNCHANGED <<total_processed, idx>>
  /\ UNCHANGED <<pkgs, total_skipped, job, cwd, codecVars, resolveVars>>

\* print of the totals after the loop
Report ==
  /\ pc = "loop" /\ idx > Len(pkgs)
  /\ pc' = "reported"
  /\ UNCHANGED <<pkgs, idx, total_processed, total_skipped, job, cwd, codecVars, resolveVars>>

\* if total_processed: sloccount ... exit(0), else exit(1)
Finish ==
  /\ pc = "reported"
  /\ pc' = IF total_processed > 0 THEN "exit0" ELSE "exit1"
  /\ UNCHANGED <<pkgs, idx, total_processed, total_skipped, job, cwd, codecVars, resolveVars>>

----------------------------------------------------------------------------
(* Specifications *)

NextCodec == Version \/ FilterCommit \/ Encode \/ Decode

SpecCodec == InitCodec /\ [][NextCodec]_vars

NextResolve == Resolve

SpecResolve == InitResolve /\ [][NextResolve]_vars
NextMain ==
  \/ SkipNoMetadata
  \/ SkipNoUrl
  \/ DecodeVersion
  \/ Clone
  \/ ResolveCommit
  \/ Checkout
  \/ Archive
  \/ Report
  \/ Finish

SpecMain == InitMain /\ [][NextMain]_vars

----------------------------------------------------------------------------
(* Properties of the decoder and the codec, under SpecCodec *)

\* the filename has three hyphen-delimited tokens
ThreeTokens == fn.name = <<"n", "p">>

TheDigits == DigitTable[fn.digs]

\* 'v' + major + '.' + (minor - 1) for each major.minor of PrePool
ExpectedDevTag ==
  IF fn.pre = <<"1", ".", "5">> THEN <<"v", "1", ".", "4">>
  ELSE IF fn.pre = <<"4", ".", "1">> THEN <<"v", "4", ".", "0">>
  ELSE IF fn.pre = <<"4", ".", "0">> THEN <<"v", "4", ".", "-", "1">>
  ELSE IF fn.pre = <<"0", "4", ".", "1", "0">> THEN <<"v", "4", ".", "9">>
  ELSE <<>>

\* version() has no way to read the base
Malformed ==
  \/ fn.marker # <<>> /\ ~TheDigits.ok
  \/ fn.marker = Dev /\ fn.pre = <<"1", ".", "1", "8", ".", "0">>

\* the low 32 bits of the offset are 0xFACEFEED
Collides == Len(TheDigits.v) >= 2 /\ TheDigits.v[1] = 65261 /\ TheDigits.v[2] = 64206

Decoded6 == ThreeTokens /\ ver # <<>> /\ ver[1].exc = None /\ dec # <<>>

\* C6 as stated: for a three-token filename version() gives, for a base with
\* '.dev', the text before it and the digits after it as an offset that
\* filter_commit decodes with anomaly = false; for a base with 'dev', the tag
\* 'v' major '.' (minor - 1) and an offset that decodes to (digits, true);
\* otherwise (base, 0).
C6_AsStated ==
  Decoded6 =>
    /\ fn.marker = DotDev =>
          /\ ver[1].tag = fn.pre
          /\ ver[1].post = TheDigits.v
          /\ dec[1].has_magic = FALSE
    /\ fn.marker = Dev =>
          /\ ver[1].tag = ExpectedDevTag
          /\ dec[1] = [x |-> TheDigits.v, has_magic |-> TRUE]
    /\ fn.marker = <<>> =>
          /\ ver[1].tag = fn.pre \o TheDigits.s
          /\ ver[1].post = <<>>

\* C6 as amended: the same, except that a '.dev' offset whose low 32 bits
\* are 0xFACEFEED decodes to (offset >> 32, true); and version() raises
\* ValueError exactly when the marker is not followed by decimal digits or
\* 'dev' is not preceded by major.minor.
C6_VersionDecodes ==
  /\ (ThreeTokens /\ ver # <<>>) => (ver[1].exc = "ValueError" <=> Malformed)
  /\ (ThreeTokens /\ ver # <<>> /\ ver[1].exc = None) =>
        /\ fn.marker = DotDev => ver[1].tag = fn.pre /\ ver[1].post = TheDigits.v
        /\ fn.marker = Dev => ver[1].tag = ExpectedDevTag
        /\ fn.marker = <<>> => ver[1].tag = fn.pre \o TheDigits.s /\ ver[1].post = <<>>
  /\ Decoded6 =>
        /\ (fn.marker = DotDev /\ ~Collides) => dec[1] = [x |-> TheDigits.v, has_magic |-> FALSE]
        /\ (fn.marker = DotDev /\ Collides) =>
              dec[1] = [x |-> SubSeq(TheDigits.v, 3, Len(TheDigits.v)), has_magic |-> TRUE]
        /\ fn.marker = Dev => dec[1] = [x |-> TheDigits.v, has_magic |-> TRUE]
        /\ fn.marker = <<>> => dec[1] = [x |-> <<>>, has_magic |-> FALSE]

\* 4.1dev500 has been decoded: tag v4.0, offset (500, true)
C6_Witness ==
  /\ Decoded6
  /\ fn.pre = <<"4", ".", "1">> /\ fn.marker = Dev /\ TheDigits.s = <<"5", "0", "0">>
  /\ ver[1].tag = <<"v", "4", ".", "0">>
  /\ dec[1] = [x |-> <<500>>, has_magic |-> TRUE]

\* C7: for every x below 2^32, filter_commit((x << 32) | BAD_MAGIC) is
\* (x, True), and the low 32 bits of the encoding are 0xFACEFEED.
C7_RoundTrip ==
  /\ cenc # <<>> => SubSeq(cenc[1], 1, 2) = <<65261, 64206>>
  /\ cdec # <<>> => cdec[1] = [x |-> cx, has_magic |-> TRUE]

\* the largest 32-bit offset has gone through the codec
C7_Witness == cdec # <<>> /\ cx = <<65535, 65535>> /\ cdec[1].x = <<65535, 65535>>

----------------------------------------------------------------------------
(* Properties of git_commit_from_offset, under SpecResolve *)

\* the call is over and got as far as the directory of the clone
Entered == res # <<>> /\ repo.kind = "dir"

\* no argument of the call holds a character git() refuses
SafeCall == call.tag = Tag10

\* the four candidates for each path and tag of the pool
ExpectedCandidates ==
  IF call.path = PathP /\ call.tag = Tag10
  THEN << <<"1", ".", "0">>, <<"v", "1", ".", "0">>, <<"p", "-", "1", ".", "0">>,
          <<"p", "-", "v", "1", ".", "0">> >>
  ELSE IF call.path = PathQ /\ call.tag = Tag10
  THEN << <<"1", ".", "0">>, <<"v", "1", ".", "0">>, <<"q", "-", "1", ".", "0">>,
          <<"q", "-", "v", "1", ".", "0">> >>
  ELSE IF call.path = PathP
  THEN << <<"1", "&">>, <<"v", "1", "&">>, <<"p", "-", "1", "&">>,
          <<"p", "-", "v", "1", "&">> >>
  ELSE << <<"1", "&">>, <<"v", "1", "&">>, <<"q", "-", "1", "&">>,
          <<"q", "-", "v", "1", "&">> >>

\* the commit a ref points at; 0 for no such ref, -1 for an unreadable one
RefPos(ref) == IF ref \in DOMAIN repo.refs THEN repo.refs[ref] ELSE 0

\* the first candidate whose log can be had; 0 when there is none
FirstGood ==
  LET good == {i \in 1..4 : RefPos(ExpectedCandidates[i]) > 0}
  IN IF good = {} THEN 0 ELSE CHOOSE i \in good : \A j \in good : i <= j

\* the length of the log of the first good candidate
GoodLogLen == repo.n - RefPos(ExpectedCandidates[FirstGood]) + 1

Queries == res[1].queries

\* C1 as stated: for a plain offset with 1 <= offset <= n the call returns
\* the hash of entry n - offset of the newest-first log of the first
\* candidate that has a log, n being the length of that log.
C1_AsStated ==
  (Entered /\ SafeCall /\ ~call.anom /\ FirstGood > 0
     /\ 1 <= call.off /\ call.off <= GoodLogLen) =>
    /\ res[1].exc = None
    /\ res[1].rev = CommitHash(RefPos(ExpectedCandidates[FirstGood]) + GoodLogLen - call.off)

\* C1 where the entry has a subject: the call returns the hash of entry
\* n - offset
C1_WithSubject ==
  (Entered /\ SafeCall /\ ~call.anom /\ FirstGood > 0
     /\ 1 <= call.off /\ call.off <= GoodLogLen
     /\ repo.emptyAt # repo.n + 1 - call.off) =>
    /\ res[1].exc = None
    /\ res[1].rev = CommitHash(repo.n + 1 - call.off)

\* C2: with offset 0 the candidates are asked in the order tag, v tag,
\* name-tag, name-v tag; one that fails is passed over; the hash of the
\* first line of the first one that succeeds is returned and no candidate
\* is asked after it.
C2_FirstSuccessWins ==
  (Entered /\ ~call.anom /\ call.off = 0) =>
    /\ Len(Queries) <= 4
    /\ \A i \in 1..Len(Queries) : Queries[i].args = <<ONELINE, ExpectedCandidates[i]>>
    /\ \A i \in 1..Len(Queries) : i < Len(Queries) => Queries[i].cause # None
    /\ FirstGood > 0 =>
          /\ Len(Queries) = FirstGood
          /\ res[1].exc = None
          /\ res[1].rev = CommitHash(RefPos(ExpectedCandidates[FirstGood]))
    /\ FirstGood = 0 => res[1].exc # None /\ (SafeCall => Len(Queries) = 4)

\* the third candidate won after a missing and an unreadable one, with the
\* fourth there to be had
C2_Witness ==
  /\ Entered /\ SafeCall /\ ~call.anom /\ call.off = 0
  /\ FirstGood = 3
  /\ RefPos(ExpectedCandidates[1]) = 0 /\ RefPos(ExpectedCandidates[2]) = -1
  /\ RefPos(ExpectedCandidates[4]) > 0
  /\ RefPos(ExpectedCandidates[3]) > 1
  /\ res[1].exc = None

\* C3: with the sentinel the call asks exactly once, for the log of the
\* current branch with no ref, asks for no candidate, and returns the hash
\* of the entry at index offset from the newest commit, whatever the tags
\* and for offset 0 too.
C3_AnomalyAbsoluteIndex ==
  (Entered /\ call.anom) =>
    /\ Len(Queries) = 1
    /\ Queries[1].args = <<ONELINE>>
    /\ (repo.head = "ok" /\ call.off < repo.n) =>
          /\ res[1].exc = None
          /\ res[1].rev = CommitHash(call.off + 1)

\* the third newest of three commits was returned with every tag on HEAD
C3_Witness ==
  /\ Entered /\ call.anom /\ call.off = 2 /\ repo.n = 3
  /\ \A r \in RefUniverse : repo.refs[r] = 1
  /\ res[1].exc = None /\ res[1].rev = CommitHash(3)

\* C4 as stated: when the log fails for all four candidates and the offset
\* is plain, the call fails with a ResolutionError and returns no hash.
C4_AsStated ==
  (Entered /\ SafeCall /\ ~call.anom /\ FirstGood = 0) =>
    /\ res[1].exc = "ResolutionError"
    /\ res[1].rev = <<>>

\* C8 as stated: in the candidate loop a failure for another reason than a
\* missing ref is raised to the caller at the candidate it occurs on, and no
\* further candidate is tried.
C8_AsStated ==
  (Entered /\ SafeCall /\ ~call.anom) =>
    \A i \in 1..Len(Queries) :
      Queries[i].cause = "fatal" => (i = Len(Queries) /\ res[1].exc = "GitError")

\* C8 as amended: in the candidate loop every failure git reports, a missing
\* ref or another, is passed over: the next candidate is asked, and no
\* GitError leaves the loop.
C8_EveryFailureSkipped ==
  (Entered /\ ~call.anom) =>
    /\ res[1].exc # "GitError"
    /\ \A i \in 1..Len(Queries) :
         (Queries[i].cause # None /\ i < 4) =>
           (Len(Queries) > i /\ Queries[i + 1].args = <<ONELINE, ExpectedCandidates[i + 1]>>)
    /\ \A i \in 1..Len(Queries) :
         Queries[i].cause = (IF RefPos(ExpectedCandidates[i]) = 0 THEN "noref"
                             ELSE IF RefPos(ExpectedCandidates[i]) < 0 THEN "fatal"
                             ELSE None)

\* an unreadable first candidate was passed over and the second one won
C8_Witness ==
  /\ Entered /\ SafeCall /\ ~call.anom
  /\ Len(Queries) = 2
  /\ Queries[1].cause = "fatal" /\ Queries[2].cause = None
  /\ res[1].exc = None

\* C9 as stated: when the index is outside 0..n-1 (a plain offset above n,
\* or a sentinel offset of at least the length of the history) the call
\* raises and returns no hash.
C9_AsStated ==
  /\ (Entered /\ SafeCall /\ ~call.anom /\ FirstGood > 0 /\ call.off > GoodLogLen) =>
        res[1].exc # None /\ res[1].rev = <<>>
  /\ (Entered /\ call.anom /\ repo.head = "ok" /\ call.off >= repo.n) =>
        res[1].exc # None /\ res[1].rev = <<>>

\* C10 as stated: on every exit of the call, by return or by a raised error,
\* the working directory is the one the call began in.
C10_AsStated == res # <<>> => cwd = StartDir

----------------------------------------------------------------------------
(* Properties of the main loop, under SpecMain *)

\* C5 as stated: a failure on one package never ends the run; the later
\* packages are still processed or skipped, the failed one counts as
\* skipped, and the totals are reported.
C5_AsStated ==
  /\ pc # "aborted"
  /\ pc \in {"reported", "exit0", "exit1"} => total_processed + total_skipped = Len(pkgs)

====
